---- MODULE Spec2Model ----
(***************************************************************************)
(* A model of cement/ext/ext_json.py: the JSON output handler, the JSON    *)
(* configuration handler and the two hooks that wire the --json option.    *)
(*                                                                         *)
(* Text is a sequence of one-character strings.  A Python value is a       *)
(* record tagged by its type:                                              *)
(*   [t |-> "null"]                 None                                   *)
(*   [t |-> "bool",  b  |-> TRUE]   True / False                           *)
(*   [t |-> "int",   n  |-> 7]      int                                    *)
(*   [t |-> "float", f  |-> "nan"]  float('nan'), a float JSON cannot hold *)
(*   [t |-> "str",   s  |-> text]   str                                    *)
(*   [t |-> "list",  xs |-> seq]    list                                   *)
(*   [t |-> "dict",  kv |-> seq of [k |-> text, v |-> value]]              *)
(*                                  dict with str keys, in insertion order *)
(*   [t |-> "object"]               any object the json module cannot      *)
(*                                  encode                                 *)
(***************************************************************************)
EXTENDS Integers, Sequences, FiniteSets, TLC

\* ------------------------------------------------------------------ bounds

\* Integers of the rendered data range over -MaxInt..MaxInt.
MaxInt == 11

\* Strings of the rendered data are at most this long.
MaxStrLen == 2

\* File handles opened by _parse_file that may be unreclaimed at one time.
MaxOpenHandles == 2

\* --------------------------------------------------------- Python values

NullV == [t |-> "null"]
BoolV(b) == [t |-> "bool", b |-> b]
IntV(n) == [t |-> "int", n |-> n]
NanV == [t |-> "float", f |-> "nan"]
StrV(s) == [t |-> "str", s |-> s]
ListV(xs) == [t |-> "list", xs |-> xs]
DictV(kv) == [t |-> "dict", kv |-> kv]
ObjectV == [t |-> "object"]
KV(k, v) == [k |-> k, v |-> v]

QUOTE == "\""
BACKSLASH == "\\"
NEWLINE == "\n"

\* Python's == on these values: dicts compare without regard to order.
RECURSIVE DeepEqual(_, _)
DeepEqual(a, b) ==
    IF a.t # b.t THEN FALSE
    ELSE CASE a.t = "null" -> TRUE
           [] a.t = "bool" -> a.b = b.b
           [] a.t = "int" -> a.n = b.n
           [] a.t = "float" -> FALSE
           [] a.t = "str" -> a.s = b.s
           [] a.t = "list" ->
                /\ Len(a.xs) = Len(b.xs)
                /\ \A i \in 1..Len(a.xs) : DeepEqual(a.xs[i], b.xs[i])
           [] a.t = "dict" ->
                /\ Len(a.kv) = Len(b.kv)
                /\ \A i \in 1..Len(a.kv) : \E j \in 1..Len(b.kv) :
                       /\ a.kv[i].k = b.kv[j].k
                       /\ DeepEqual(a.kv[i].v, b.kv[j].v)
           [] OTHER -> FALSE

\* ------------------------------------------------------------ json.dumps

Digits == <<"0", "1", "2", "3", "4", "5", "6", "7", "8", "9">>

RECURSIVE NatRepr(_)
NatRepr(n) ==
    IF n < 10 THEN <<Digits[n + 1]>>
    ELSE NatRepr(n \div 10) \o <<Digits[(n % 10) + 1]>>

IntRepr(n) == IF n < 0 THEN <<"-">> \o NatRepr(-n) ELSE NatRepr(n)

\* The encoder's string escaping: a quote, a backslash and a newline are
\* written as two-character escapes.
EscapeChar(c) ==
    CASE c = QUOTE -> <<BACKSLASH, QUOTE>>
      [] c = BACKSLASH -> <<BACKSLASH, BACKSLASH>>
      [] c = NEWLINE -> <<BACKSLASH, "n">>
      [] OTHER -> <<c>>

RECURSIVE EscapeStr(_)
EscapeStr(s) ==
    IF s = <<>> THEN <<>> ELSE EscapeChar(Head(s)) \o EscapeStr(Tail(s))

EncodeStr(s) == <<QUOTE>> \o EscapeStr(s) \o <<QUOTE>>

\* What the encoder accepts.  A float nan is accepted (allow_nan defaults
\* to True); an arbitrary object raises TypeError.
RECURSIVE Serializable(_)
Serializable(v) ==
    CASE v.t = "object" -> FALSE
      [] v.t = "list" -> \A i \in 1..Len(v.xs) : Serializable(v.xs[i])
      [] v.t = "dict" -> \A i \in 1..Len(v.kv) : Serializable(v.kv[i].v)
      [] OTHER -> TRUE

\* json.dumps(v) with the default separators ', ' and ': '.
RECURSIVE Dumps(_)
RECURSIVE DumpsItems(_)
RECURSIVE DumpsPairs(_)
DumpsItems(xs) ==
    IF xs = <<>> THEN <<>>
    ELSE Dumps(Head(xs))
         \o (IF Len(xs) > 1 THEN <<",", " ">> ELSE <<>>)
         \o DumpsItems(Tail(xs))

DumpsPairs(kv) ==
    IF kv = <<>> THEN <<>>
    ELSE EncodeStr(Head(kv).k) \o <<":", " ">> \o Dumps(Head(kv).v)
         \o (IF Len(kv) > 1 THEN <<",", " ">> ELSE <<>>)
         \o DumpsPairs(Tail(kv))

Dumps(v) ==
    CASE v.t = "null" -> <<"n", "u", "l", "l">>
      [] v.t = "bool" -> IF v.b THEN <<"t", "r", "u", "e">>
                         ELSE <<"f", "a", "l", "s", "e">>
      [] v.t = "int" -> IntRepr(v.n)
      [] v.t = "float" -> <<"N", "a", "N">>
      [] v.t = "str" -> EncodeStr(v.s)
      [] v.t = "list" -> <<"[">> \o DumpsItems(v.xs) \o <<"]">>
      [] v.t = "dict" -> <<"{">> \o DumpsPairs(v.kv) \o <<"}">>

\* ------------------------------------------------------------ json.loads

\* The decoder's result: ok with the value and the index after it, or a
\* failure, which json.loads raises as ValueError.
Parsed(v, i) == [ok |-> TRUE, v |-> v, i |-> i]
ParseFail == [ok |-> FALSE, v |-> NullV, i |-> 0]

\* The character at index i, "" past the end.
At(s, i) == IF i >= 1 /\ i <= Len(s) THEN s[i] ELSE ""

MatchAt(s, i, lit) ==
    /\ i + Len(lit) - 1 <= Len(s)
    /\ SubSeq(s, i, i + Len(lit) - 1) = lit

IsWs(c) == c \in {" ", NEWLINE}
IsDigit(c) == \E d \in 1..10 : Digits[d] = c
DigitVal(c) == CHOOSE d \in 0..9 : Digits[d + 1] = c

RECURSIVE SkipWs(_, _)
SkipWs(s, i) == IF IsWs(At(s, i)) THEN SkipWs(s, i + 1) ELSE i

\* The body of a string, from the index after its opening quote.
RECURSIVE ScanString(_, _, _)
ScanString(s, i, acc) ==
    LET c == At(s, i)
        e == At(s, i + 1)
    IN  CASE c = "" -> ParseFail
          [] c = QUOTE -> Parsed(StrV(acc), i + 1)
          [] c = NEWLINE -> ParseFail
          [] c = BACKSLASH ->
               CASE e = QUOTE -> ScanString(s, i + 2, Append(acc, QUOTE))
                 [] e = BACKSLASH -> ScanString(s, i + 2, Append(acc, BACKSLASH))
                 [] e = "n" -> ScanString(s, i + 2, Append(acc, NEWLINE))
                 [] e = "/" -> ScanString(s, i + 2, Append(acc, "/"))
                 [] OTHER -> ParseFail
          [] OTHER -> ScanString(s, i + 1, Append(acc, c))

RECURSIVE ScanDigits(_, _, _)
ScanDigits(s, i, n) ==
    IF IsDigit(At(s, i)) THEN ScanDigits(s, i + 1, 10 * n + DigitVal(At(s, i)))
    ELSE Parsed(IntV(n), i)

\* An integer: -?(0|[1-9][0-9]*).
ScanNumber(s, i) ==
    LET neg == At(s, i) = "-"
        j == IF neg THEN i + 1 ELSE i
        r == IF At(s, j) = "0" THEN Parsed(IntV(0), j + 1)
             ELSE ScanDigits(s, j, 0)
    IN  IF ~IsDigit(At(s, j)) THEN ParseFail
        ELSE IF neg THEN Parsed(IntV(-r.v.n), r.i) ELSE r

\* dict(pairs): a repeated key keeps its place and takes the later value.
DictSet(kv, k, v) ==
    IF \E i \in 1..Len(kv) : kv[i].k = k
    THEN [i \in 1..Len(kv) |-> IF kv[i].k = k THEN KV(k, v) ELSE kv[i]]
    ELSE Append(kv, KV(k, v))

RECURSIVE ScanOnce(_, _)
RECURSIVE ObjectPairs(_, _, _)
RECURSIVE ArrayItems(_, _, _)

ObjectPairs(s, j, acc) ==
    IF At(s, j) # QUOTE THEN ParseFail
    ELSE LET key == ScanString(s, j + 1, <<>>)
             c == SkipWs(s, key.i)
             val == ScanOnce(s, SkipWs(s, c + 1))
             m == SkipWs(s, val.i)
             kv == DictSet(acc, key.v.s, val.v)
         IN  IF ~key.ok \/ At(s, c) # ":" THEN ParseFail
             ELSE IF ~val.ok THEN ParseFail
             ELSE CASE At(s, m) = "}" -> Parsed(DictV(kv), m + 1)
                    [] At(s, m) = "," -> ObjectPairs(s, SkipWs(s, m + 1), kv)
                    [] OTHER -> ParseFail

ParseObject(s, i) ==
    LET j == SkipWs(s, i)
    IN  IF At(s, j) = "}" THEN Parsed(DictV(<<>>), j + 1)
        ELSE ObjectPairs(s, j, <<>>)

ArrayItems(s, j, acc) ==
    LET val == ScanOnce(s, j)
        m == SkipWs(s, val.i)
        xs == Append(acc, val.v)
    IN  IF ~val.ok THEN ParseFail
        ELSE CASE At(s, m) = "]" -> Parsed(ListV(xs), m + 1)
               [] At(s, m) = "," -> ArrayItems(s, SkipWs(s, m + 1), xs)
               [] OTHER -> ParseFail

ParseArray(s, i) ==
    LET j == SkipWs(s, i)
    IN  IF At(s, j) = "]" THEN Parsed(ListV(<<>>), j + 1)
        ELSE ArrayItems(s, j, <<>>)

ScanOnce(s, i) ==
    LET c == At(s, i)
    IN  CASE c = QUOTE -> ScanString(s, i + 1, <<>>)
          [] c = "{" -> ParseObject(s, i + 1)
          [] c = "[" -> ParseArray(s, i + 1)
          [] c = "n" /\ MatchAt(s, i, <<"n", "u", "l", "l">>) ->
               Parsed(NullV, i + 4)
          [] c = "t" /\ MatchAt(s, i, <<"t", "r", "u", "e">>) ->
               Parsed(BoolV(TRUE), i + 4)
          [] c = "f" /\ MatchAt(s, i, <<"f", "a", "l", "s", "e">>) ->
               Parsed(BoolV(FALSE), i + 5)
          [] c = "N" /\ MatchAt(s, i, <<"N", "a", "N">>) ->
               Parsed(NanV, i + 3)
          [] c = "-" \/ IsDigit(c) -> ScanNumber(s, i)
          [] OTHER -> ParseFail

\* json.loads(s): one value, then nothing but whitespace.
Loads(s) ==
    LET r == ScanOnce(s, SkipWs(s, 1))
    IN  IF r.ok /\ SkipWs(s, r.i) = Len(s) + 1 THEN r ELSE ParseFail

\* ------------------------------------------------------------------ state

VARIABLES
    store,          \* the configuration: section -> (key -> value)
    open_handles,   \* handles opened by _parse_file and not yet released
    call,           \* the last call of a handler method, and how it ended
    sys_stdout,     \* what sys.stdout points at
    sys_stderr,     \* what sys.stderr points at
    argv,           \* app._meta.argv
    output_handler, \* app._meta.output_handler
    output,         \* the label of the handler app.output was set up from
    output_setups,  \* how many times app._setup_output_handler() has run
    hooks,          \* the hook registry: hook name -> registered functions
    handlers,       \* the handler registry: the registered handler classes
    arg_options,    \* the options added to app.args
    phase           \* where the application is in its life cycle

vars == <<store, open_handles, call, sys_stdout, sys_stderr, argv,
          output_handler, output, output_setups, hooks, handlers,
          arg_options, phase>>

config_vars == <<store, open_handles>>
stream_vars == <<sys_stdout, sys_stderr>>
app_vars == <<argv, output_handler, output, output_setups, hooks, handlers,
              arg_options, phase>>

NoCall == [op |-> "none"]

\* ------------------------------------------------------ the file system

Text(v) == Dumps(v)
S(c) == StrV(<<c>>)

\* {"A": {"x": "9", "z": "3"}}
AppConfig ==
    DictV(<<KV(<<"A">>, DictV(<<KV(<<"x">>, S("9")), KV(<<"z">>, S("3"))>>))>>)
AppJson == Text(AppConfig)

\* { "B":{"y":"2"} ,"A" : {}} and a final newline, written by hand
HandJson ==
    <<"{", " ", QUOTE, "B", QUOTE, ":", "{", QUOTE, "y", QUOTE, ":", QUOTE,
      "2", QUOTE, "}", " ", ",", QUOTE, "A", QUOTE, " ", ":", " ", "{", "}",
      "}", NEWLINE>>

\* {"B": {"x": "1"}, "C": {"x": "7", "y": "8"}}
NewConfig ==
    DictV(<<KV(<<"B">>, DictV(<<KV(<<"x">>, S("1"))>>)),
            KV(<<"C">>, DictV(<<KV(<<"x">>, S("7")), KV(<<"y">>, S("8"))>>))>>)
NewJson == Text(NewConfig)

\* {not json
BadJson == <<"{", "n", "o", "t", " ", "j", "s", "o", "n">>

\* app.json cut short of its last brace
TruncJson == SubSeq(AppJson, 1, Len(AppJson) - 1)

\* [1]: valid JSON that is no mapping of sections
ListJson == <<"[", "1", "]">>

\* The files that exist, by path; any other path does not exist.
Files ==
    [p \in {"bad.json", "trunc.json", "list.json", "app.json", "hand.json",
            "new.json"} |->
        CASE p = "bad.json" -> BadJson
          [] p = "trunc.json" -> TruncJson
          [] p = "list.json" -> ListJson
          [] p = "app.json" -> AppJson
          [] p = "hand.json" -> HandJson
          [] p = "new.json" -> NewJson]

Paths == DOMAIN Files \cup {"missing.json"}

\* ---------------------------------------------- the configuration store

EmptyStore == [s \in {} |-> <<>>]

\* A = {x: 1, y: 2}
StoreA == [s \in {<<"A">>} |-> [k \in {<<"x">>, <<"y">>} |->
               IF k = <<"x">> THEN S("1") ELSE S("2")]]

\* B = {x: 5}, C = {}
StoreBC == [s \in {<<"B">>, <<"C">>} |->
               IF s = <<"B">> THEN [k \in {<<"x">>} |-> S("5")]
               ELSE [k \in {} |-> NullV]]

InitStores == {EmptyStore, StoreA, StoreBC}

Keys(kv) == {kv[i].k : i \in 1..Len(kv)}
Lookup(kv, k) == kv[CHOOSE i \in 1..Len(kv) : kv[i].k = k].v

\* merge() takes a mapping of sections, each a mapping of keys.
MergeAccepts(v) ==
    /\ v.t = "dict"
    /\ \A i \in 1..Len(v.kv) : v.kv[i].v.t = "dict"

MergeSection(sec, kv) ==
    [k \in DOMAIN sec \cup Keys(kv) |->
        IF k \in Keys(kv) THEN Lookup(kv, k) ELSE sec[k]]

\* ConfigParserConfigHandler.merge: every section, key and value of the
\* mapping is written into the store; what it does not mention is kept.
Merge(st, v) ==
    [s \in DOMAIN st \cup Keys(v.kv) |->
        IF s \in Keys(v.kv)
        THEN MergeSection(IF s \in DOMAIN st THEN st[s] ELSE <<>>,
                          Lookup(v.kv, s).kv)
        ELSE st[s]]

\* ------------------------------------ JsonConfigHandler._parse_file

\* Variants of _parse_file with one step changed: what a missing file
\* does, what a parse error does, and how the parsed mapping reaches the
\* store.
ParseFileVariant(st, file_path, missing, bad, mergeOp(_, _)) ==
    IF file_path \notin DOMAIN Files
    THEN [missing EXCEPT !.store = st, !.handle = "none"]
    ELSE LET r == Loads(Files[file_path])
         IN  IF ~r.ok
             THEN [bad EXCEPT !.store = st, !.handle = "pinned"]
             ELSE IF ~MergeAccepts(r.v)
             THEN [status |-> "raised", ret |-> "", error |-> "MergeError",
                   store |-> st, handle |-> "dropped"]
             ELSE [status |-> "returned", ret |-> "True", error |-> "",
                   store |-> mergeOp(st, r.v), handle |-> "dropped"]

Raises(error) == [status |-> "raised", ret |-> "", error |-> error,
                  store |-> <<>>, handle |-> ""]
Returns(ret) == [status |-> "returned", ret |-> ret, error |-> "",
                 store |-> <<>>, handle |-> ""]
Replace(st, v) == Merge(EmptyStore, v)

\* The store is replaced by the file's mapping instead of merged with it.
ParseFileResult_Replace(st, file_path) ==
    ParseFileVariant(st, file_path, Raises("IOError"), Raises("ValueError"),
                     Replace)

\* A missing file is answered with False instead of an error.
ParseFileResult_ReturnFalse(st, file_path) ==
    ParseFileVariant(st, file_path, Returns("False"), Raises("ValueError"),
                     Merge)

\* A parse error is caught and the call returns.
ParseFileResult_Swallow(st, file_path) ==
    ParseFileVariant(st, file_path, Raises("IOError"), Returns("True"),
                     Merge)

\* How one call ends: status, the value returned or the error raised, the
\* store it leaves, and what became of the handle that open() returned:
\*   "none"     open() raised, there is no handle
\*   "pinned"   the raised error's traceback refers to the file object, so
\*              the handle is open when the caller sees the error
\*   "dropped"  the last reference is gone and nothing closed the file:
\*              the runtime closes it at once (reference counting) or at a
\*              later collection
ParseFileResult(st, file_path) ==
    IF file_path \notin DOMAIN Files
    THEN [status |-> "raised", ret |-> "", error |-> "IOError",
          store |-> st, handle |-> "none"]
    ELSE LET r == Loads(Files[file_path])
         IN  IF ~r.ok
             THEN [status |-> "raised", ret |-> "", error |-> "ValueError",
                   store |-> st, handle |-> "pinned"]
             ELSE IF ~MergeAccepts(r.v)
             THEN [status |-> "raised", ret |-> "", error |-> "MergeError",
                   store |-> st, handle |-> "dropped"]
             ELSE [status |-> "returned", ret |-> "True", error |-> "",
                   store |-> Merge(st, r.v), handle |-> "dropped"]

FreeHandles == (1..MaxOpenHandles) \ open_handles

ParseFile(file_path) ==
    LET r == ParseFileResult(store, file_path)
        fd == CHOOSE h \in FreeHandles : \A g \in FreeHandles : h <= g
    IN  /\ file_path \in DOMAIN Files => FreeHandles # {}
        /\ store' = r.store
        /\ \E closed \in BOOLEAN :
              /\ r.handle = "none" => closed
              /\ r.handle = "pinned" => ~closed
              /\ open_handles' = IF closed THEN open_handles
                                 ELSE open_handles \cup {fd}
              /\ call' = [op |-> "_parse_file", file_path |-> file_path,
                          pre |-> store, status |-> r.status, ret |-> r.ret,
                          error |-> r.error,
                          fd |-> IF r.handle = "none" THEN 0 ELSE fd]
        /\ UNCHANGED <<stream_vars, app_vars>>

\* The runtime finalizes a file object nothing refers to any more, which
\* closes its handle.
Finalize(h) ==
    /\ h \in open_handles
    /\ open_handles' = open_handles \ {h}
    /\ UNCHANGED <<store, call, stream_vars, app_vars>>

\* ------------------------------------------------ JsonOutputHandler.render

\* backend.__saved_stdout__ and backend.__saved_stderr__: the streams the
\* process started with.
SavedStdout == "stdout"
SavedStderr == "stderr"

\* Where the framework points both streams to suppress output.
DevNull == "devnull"

\* The template is honoured: with one, nothing of the data is rendered.
RenderResult_Templated(data_dict, template) ==
    IF ~Serializable(data_dict)
    THEN [status |-> "raised", out |-> <<>>, error |-> "TypeError",
          data_after |-> data_dict]
    ELSE [status |-> "returned",
          out |-> IF template = "None" THEN Dumps(data_dict)
                  ELSE Dumps(DictV(<<>>)),
          error |-> "", data_after |-> data_dict]

\* return json.dumps(data_dict): the text, or the encoder's TypeError.
RenderResult(data_dict, template) ==
    IF Serializable(data_dict)
    THEN [status |-> "returned", out |-> Dumps(data_dict), error |-> "",
          data_after |-> data_dict]
    ELSE [status |-> "raised", out |-> <<>>, error |-> "TypeError",
          data_after |-> data_dict]

\* Only sys.stdout is restored.
RestoredStreams_StdoutOnly == [stdout |-> SavedStdout, stderr |-> sys_stderr]

\* The stream assignments of render.
RestoredStreams == [stdout |-> SavedStdout, stderr |-> SavedStderr]

\* app.render(data) in the run phase, with the json handler as app.output.
Render(data_dict, template) ==
    LET r == RenderResult(data_dict, template)
    IN  /\ phase = "run"
        /\ output = "json"
        /\ <<"output", "json">> \in handlers
        /\ sys_stdout' = RestoredStreams.stdout
        /\ sys_stderr' = RestoredStreams.stderr
        /\ call' = [op |-> "render", data_dict |-> data_dict,
                    template |-> template, status |-> r.status,
                    out |-> r.out, error |-> r.error,
                    data_after |-> r.data_after,
                    pre_stdout |-> sys_stdout, pre_stderr |-> sys_stderr]
        /\ UNCHANGED <<config_vars, app_vars>>

\* ------------------------------------------------------------ the hooks

Range(seq) == {seq[i] : i \in 1..Len(seq)}

JsonOption == [flag |-> "--json", dest |-> "output_handler",
               action |-> "store_const", const |-> "json"]

\* add_json_option(app)
AddJsonOption == arg_options' = arg_options \cup {JsonOption}

\* app._setup_output_handler(): app.output becomes the handler that the
\* selection names.
SetupOutputHandler ==
    /\ output' = output_handler'
    /\ output_setups' = output_setups + 1

\* The selection is changed but the handler is not set up again.
SetOutputHandler_NoSetup ==
    IF "--json" \in Range(argv)
    THEN /\ output_handler' = "json"
         /\ UNCHANGED <<output, output_setups>>
    ELSE UNCHANGED <<output_handler, output, output_setups>>

\* The selection is forced whatever the arguments are.
SetOutputHandler_Always ==
    /\ output_handler' = "json"
    /\ SetupOutputHandler

\* set_output_handler(app)
SetOutputHandler ==
    IF "--json" \in Range(argv)
    THEN /\ output_handler' = "json"
         /\ SetupOutputHandler
    ELSE UNCHANGED <<output_handler, output, output_setups>>

\* load(app)
Load ==
    /\ phase = "init"
    /\ <<"output", "json">> \notin handlers
    /\ hooks' = [hooks EXCEPT !.post_setup = Append(@, "add_json_option"),
                              !.pre_run = Append(@, "set_output_handler")]
    /\ handlers' = handlers \cup {<<"output", "json">>, <<"config", "json">>}
    /\ UNCHANGED <<config_vars, call, stream_vars, argv, output_handler,
                   output, output_setups, arg_options, phase>>

\* --------------------------------------------- the application life cycle

\* The framework suppresses output when --json or --quiet is given.
Suppressed == {"--json", "--quiet"} \cap Range(argv) # {}

\* app.setup(): the output handler is set up from the configured
\* selection, output is suppressed if asked for, and the post_setup hooks
\* run.  A selection no registered handler answers to cannot be set up.
Setup ==
    /\ phase = "init"
    /\ output_handler = "json" => <<"output", "json">> \in handlers
    /\ phase' = "setup"
    /\ output_handler' = output_handler
    /\ SetupOutputHandler
    /\ sys_stdout' = IF Suppressed THEN DevNull ELSE sys_stdout
    /\ sys_stderr' = IF Suppressed THEN DevNull ELSE sys_stderr
    /\ IF "add_json_option" \in Range(hooks.post_setup)
       THEN AddJsonOption
       ELSE UNCHANGED arg_options
    /\ UNCHANGED <<config_vars, call, argv, hooks, handlers>>

\* app.run() begins: the pre_run hooks run.
PreRun ==
    /\ phase = "setup"
    /\ phase' = "pre_run"
    /\ IF "set_output_handler" \in Range(hooks.pre_run)
       THEN /\ SetOutputHandler
            /\ call' = [op |-> "set_output_handler",
                        pre_output_handler |-> output_handler,
                        pre_output |-> output,
                        pre_setups |-> output_setups]
       ELSE UNCHANGED <<output_handler, output, output_setups, call>>
    /\ UNCHANGED <<config_vars, stream_vars, argv, hooks, handlers,
                   arg_options>>

\* The main run phase begins.
Run ==
    /\ phase = "pre_run"
    /\ phase' = "run"
    /\ UNCHANGED <<config_vars, call, stream_vars, argv, output_handler,
                   output, output_setups, hooks, handlers, arg_options>>

\* ------------------------------------------------------------- the inputs

Chars == {"a", QUOTE, BACKSLASH, NEWLINE}
Strings == UNION {[1..n -> Chars] : n \in 0..MaxStrLen}
Ints == (-MaxInt)..MaxInt

Scalars ==
    {NullV, BoolV(TRUE), BoolV(FALSE)}
    \cup {IntV(n) : n \in Ints}
    \cup {StrV(s) : s \in Strings}

\* Values outside the JSON value model.
NonJson == {NanV, ObjectV}

Few == {IntV(-MaxInt), StrV(<<QUOTE>>), ListV(<<>>), DictV(<<>>), NanV,
        ObjectV}

DataDicts ==
    {DictV(<<>>)}
    \cup {DictV(<<KV(<<"k">>, v)>>) : v \in Scalars \cup NonJson}
    \cup {DictV(<<KV(s, NullV)>>) : s \in Strings}
    \cup {DictV(<<KV(<<"a">>, ListV(<<v, w>>)),
                  KV(<<"b">>, DictV(<<KV(<<"c">>, w)>>))>>) :
              v \in Few, w \in Few}

Templates == {"None", "report.txt"}

Argvs == {<<>>, <<"--json">>, <<"--quiet">>, <<"list", "--json">>,
          <<"--jsonl", "--debug">>}

OutputHandlers == {"null", "yaml", "json"}

\* ------------------------------------------------------ the specifications

Init ==
    /\ store \in InitStores
    /\ open_handles = {}
    /\ call = NoCall
    /\ sys_stdout = SavedStdout
    /\ sys_stderr = SavedStderr
    /\ argv \in Argvs
    /\ output_handler \in OutputHandlers
    /\ output = "none"
    /\ output_setups = 0
    /\ hooks = [post_setup |-> <<>>, pre_run |-> <<>>]
    /\ handlers = {}
    /\ arg_options = {}
    /\ phase = "init"

NextConfig ==
    \/ \E file_path \in Paths : ParseFile(file_path)
    \/ \E h \in 1..MaxOpenHandles : Finalize(h)

NextOutput ==
    \/ Load
    \/ Setup
    \/ PreRun
    \/ Run
    \/ \E data_dict \in DataDicts, template \in Templates :
           Render(data_dict, template)

\* The two handlers share no state, so each is checked in a specification
\* of its own.
\*
\* The configuration handler alone, in an application that does nothing
\* else.
InitConfig == Init /\ argv = <<>> /\ output_handler = "null"
SpecConfig == InitConfig /\ [][NextConfig]_vars

\* The output handler and the life cycle, over one configuration.
InitOutput == Init /\ store = EmptyStore
SpecOutput == InitOutput /\ [][NextOutput]_vars

\* ============================================================== the claims

Absent == [t |-> "absent"]

\* The value of key k of section s in a store, Absent when there is none.
StoreValue(st, s, k) ==
    IF s \in DOMAIN st /\ k \in DOMAIN st[s] THEN st[s][k] ELSE Absent

\* The value a configuration mapping F gives key k of section s.
FileValue(F, s, k) ==
    IF s \in Keys(F.kv) /\ k \in Keys(Lookup(F.kv, s).kv)
    THEN Lookup(Lookup(F.kv, s).kv, k)
    ELSE Absent

\* The mapping hand.json holds.
HandConfig ==
    DictV(<<KV(<<"B">>, DictV(<<KV(<<"y">>, S("2"))>>)),
            KV(<<"A">>, DictV(<<>>))>>)

\* The files that hold a valid mapping of sections, with the mapping.
ValidConfigs ==
    [p \in {"app.json", "hand.json", "new.json"} |->
        CASE p = "app.json" -> AppConfig
          [] p = "hand.json" -> HandConfig
          [] p = "new.json" -> NewConfig]

\* The files that do not hold valid JSON.
InvalidJsonFiles == {"bad.json", "trunc.json"}

SectionNames == {<<"A">>, <<"B">>, <<"C">>, <<"D">>}
KeyNames == {<<"x">>, <<"y">>, <<"z">>, <<"w">>}

ParseFileCalled == call.op = "_parse_file"

\* C1: after _parse_file on a file holding a valid mapping F of sections,
\* the call has returned True and, for every section s and key k, the
\* store holds F[s][k] if F mentions s and k and otherwise what it held
\* before the call; nothing that was present has been removed.
C1_LoadMergesFileIntoStore ==
    (ParseFileCalled /\ call.file_path \in DOMAIN ValidConfigs) =>
        LET F == ValidConfigs[call.file_path]
        IN  /\ call.status = "returned"
            /\ call.ret = "True"
            /\ \A s \in SectionNames, k \in KeyNames :
                   StoreValue(store, s, k) =
                       IF FileValue(F, s, k) # Absent THEN FileValue(F, s, k)
                       ELSE StoreValue(call.pre, s, k)
            /\ DOMAIN call.pre \subseteq DOMAIN store
            /\ \A s \in DOMAIN call.pre :
                   DOMAIN call.pre[s] \subseteq DOMAIN store[s]

\* The scenario of the specification: A = {x: 1, y: 2} loaded with
\* {"A": {"x": "9", "z": "3"}} gives A = {x: 9, y: 2, z: 3}.
C1_Witness ==
    /\ ParseFileCalled
    /\ call.file_path = "app.json"
    /\ call.pre = StoreA
    /\ call.status = "returned"
    /\ StoreValue(store, <<"A">>, <<"x">>) = S("9")
    /\ StoreValue(store, <<"A">>, <<"y">>) = S("2")
    /\ StoreValue(store, <<"A">>, <<"z">>) = S("3")

C3_InvalidJsonRaises ==
    (ParseFileCalled /\ call.file_path \in InvalidJsonFiles) =>
        /\ call.status = "raised"
        /\ call.error = "ValueError"
        /\ call.ret = ""
        /\ store = call.pre

C3_Witness ==
    /\ ParseFileCalled
    /\ call.file_path = "bad.json"
    /\ call.error = "ValueError"
    /\ call.pre = StoreBC
    /\ store = StoreBC

HookRegistered == "set_output_handler" \in Range(hooks.pre_run)
JsonFlag == "--json" \in Range(argv)

\* C4: once set_output_handler has run with --json among the arguments,
\* the selection is json and the output handler has been set up once more,
\* from that selection; and so it is when the run phase has begun.
C4_JsonFlagForcesJsonHandler ==
    /\ (call.op = "set_output_handler" /\ JsonFlag) =>
           /\ output_handler = "json"
           /\ output = "json"
           /\ output_setups = call.pre_setups + 1
    /\ (phase = "run" /\ HookRegistered /\ JsonFlag) =>
           /\ output_handler = "json"
           /\ output = "json"

\* The hook has overridden a configured selection that was not json.
C4_Witness ==
    /\ call.op = "set_output_handler"
    /\ JsonFlag
    /\ call.pre_output_handler = "yaml"
    /\ call.pre_output = "yaml"
    /\ output_handler = "json"
    /\ output = "json"

\* C5: when render has ended, sys.stdout and sys.stderr point at the saved
\* streams, whether or not they were redirected when it was called.
C5_RenderRestoresStreams ==
    call.op = "render" =>
        /\ sys_stdout = SavedStdout
        /\ sys_stderr = SavedStderr

\* render was called with both streams redirected, under --json.
C5_Witness ==
    /\ call.op = "render"
    /\ JsonFlag
    /\ call.pre_stdout = DevNull
    /\ call.pre_stderr = DevNull
    /\ call.status = "returned"
    /\ sys_stdout = SavedStdout

\* The JSON value model: null, booleans, numbers, strings, arrays, and
\* objects with string keys.
RECURSIVE JsonRepresentable(_)
JsonRepresentable(v) ==
    CASE v.t \in {"null", "bool", "int", "str"} -> TRUE
      [] v.t = "list" -> \A i \in 1..Len(v.xs) : JsonRepresentable(v.xs[i])
      [] v.t = "dict" -> \A i \in 1..Len(v.kv) : JsonRepresentable(v.kv[i].v)
      [] OTHER -> FALSE

\* C6: for a JSON-representable data dictionary, render returns a text
\* that parses as JSON to a value deep-equal to the dictionary, the same
\* text for every template, and the dictionary is as it was.
C6_RenderRoundTrips ==
    (call.op = "render" /\ JsonRepresentable(call.data_dict)) =>
        /\ call.status = "returned"
        /\ Loads(call.out).ok
        /\ DeepEqual(Loads(call.out).v, call.data_dict)
        /\ \A t \in Templates : RenderResult(call.data_dict, t).out = call.out
        /\ call.data_after = call.data_dict

\* A nested dictionary with escaped characters, rendered with a template.
C6_Witness ==
    /\ call.op = "render"
    /\ call.template = "report.txt"
    /\ call.data_dict =
           DictV(<<KV(<<"a">>, ListV(<<StrV(<<QUOTE>>), IntV(-MaxInt)>>)),
                   KV(<<"b">>, DictV(<<KV(<<"c">>, IntV(-MaxInt))>>))>>)
    /\ call.status = "returned"

\* C7: render with a data dictionary holding a value outside the JSON
\* value model ends in a raised serialization error and produces no text.
C7_NonJsonValueRaises ==
    (call.op = "render" /\ ~JsonRepresentable(call.data_dict)) =>
        /\ call.status = "raised"
        /\ call.error = "TypeError"
        /\ call.out = <<>>

\* C8: once _parse_file has returned or raised, the handle it opened is
\* not open.
C8_HandleReleasedWhenCallEnds ==
    ParseFileCalled => call.fd \notin open_handles

\* C9: _parse_file on a path that does not exist returns False.
C9_MissingFileReturnsFalse ==
    (ParseFileCalled /\ call.file_path \notin DOMAIN Files) =>
        /\ call.status = "returned"
        /\ call.ret = "False"

\* C10: once set_output_handler has run without --json among the
\* arguments, the selection and the output handler are what they were and
\* the handler has not been set up again.
C10_NoFlagLeavesHandlerAlone ==
    (call.op = "set_output_handler" /\ ~JsonFlag) =>
        /\ output_handler = call.pre_output_handler
        /\ output = call.pre_output
        /\ output_setups = call.pre_setups

\* The hook ran with arguments that only resemble --json.
C10_Witness ==
    /\ call.op = "set_output_handler"
    /\ argv = <<"--jsonl", "--debug">>
    /\ output_handler = "yaml"
    /\ output_setups = 1

====
